---------------------------- MODULE Spec2Model ----------------------------
(***************************************************************************)
(* Weather dashboard refresh pipeline (src/unnamed/part_000, the three-    *)
(* chart script, and src/static/app.js lines 150-331, the five-chart       *)
(* script): fetch /api/summary and /api/timeseries, format the KPI texts,  *)
(* create or update the charts, repeat on a 60 s timer.                    *)
(*                                                                         *)
(* JavaScript values are records tagged by k.  A finite number is the      *)
(* exact rational num/den; "big" is a finite number of magnitude >= 1e21.  *)
(* A string is a sequence of tokens, each a record tagged by k.            *)
(***************************************************************************)
EXTENDS Integers, Sequences, FiniteSets

VARIABLES
    variant,    \* which script the page loads: "three" or "five"
    timer,      \* TRUE once setInterval has been called
    cycle,      \* cycle[c]: one call of refresh(); cycle 1 is the page-load call
    dom,        \* dom[f]: textContent of element f and the cycle that wrote it
    chart,      \* chart[h]: module-level chart handle h and the Chart behind it
    pin,        \* argument of the pure function under check
    pout        \* its result

vars == <<variant, timer, cycle, dom, chart, pin, pout>>

-----------------------------------------------------------------------------
(* Bounds *)

MaxCycles == 3      \* calls of refresh() in one run (the timer itself never stops)
MaxQ == 9           \* fmtNum is applied to the quarters -MaxQ/4 .. MaxQ/4
MaxDigits == 3      \* and to digit counts 0 .. MaxDigits

-----------------------------------------------------------------------------
(* JavaScript values *)

Null == [k |-> "null"]
Undefined == [k |-> "undefined"]
NaN == [k |-> "nan"]
Inf(neg) == [k |-> "inf", neg |-> neg]
Big(neg) == [k |-> "big", neg |-> neg]
Fin(num, den) == [k |-> "fin", num |-> num, den |-> den]

AbsInt(i) == IF i < 0 THEN -i ELSE i

\* ToNumber, as the arithmetic operators and Math.abs apply it
ToNumber(x) ==
    CASE x.k = "null" -> Fin(0, 1)
      [] x.k = "undefined" -> NaN
      [] OTHER -> x

\* x * 0.02953
PRESSURE_HPA_TO_INHG(x) ==
    LET n == ToNumber(x) IN
    IF n.k = "fin" THEN Fin(n.num * 2953, n.den * 100000) ELSE n

\* Math.abs(x)
MathAbs(x) ==
    LET n == ToNumber(x) IN
    CASE n.k = "fin" -> Fin(AbsInt(n.num), n.den)
      [] n.k \in {"inf", "big"} -> [n EXCEPT !.neg = FALSE]
      [] OTHER -> n

\* x > 0 and x < 0 (both false when x converts to NaN)
Gt0(x) ==
    LET n == ToNumber(x) IN
    CASE n.k = "fin" -> n.num > 0
      [] n.k \in {"inf", "big"} -> ~n.neg
      [] OTHER -> FALSE

Lt0(x) ==
    LET n == ToNumber(x) IN
    CASE n.k = "fin" -> n.num < 0
      [] n.k \in {"inf", "big"} -> n.neg
      [] OTHER -> FALSE

-----------------------------------------------------------------------------
(* Formatting *)

Lit(s) == [k |-> "lit", s |-> s]
\* the em dash the code writes for a missing value
Placeholder == Lit("--")

RECURSIVE Pow10(_)
Pow10(d) == IF d = 0 THEN 1 ELSE 10 * Pow10(d - 1)

\* Number.prototype.toFixed: non-finite numbers and magnitudes >= 1e21 print
\* as Number::toString prints them; otherwise n is the integer nearest to
\* |x| * 10^d (the larger one on a tie), printed with d fraction digits.
toFixed(x, d) ==
    CASE x.k = "nan" -> Lit("NaN")
      [] x.k = "inf" -> Lit(IF x.neg THEN "-Infinity" ELSE "Infinity")
      [] x.k = "big" -> [k |-> "exp", neg |-> x.neg]
      [] x.k = "fin" ->
           LET n == (2 * AbsInt(x.num) * Pow10(d) + x.den) \div (2 * x.den)
           IN  [k |-> "fixed", neg |-> x.num < 0, ip |-> n \div Pow10(d),
                frac |-> [i \in 1..d |-> (n \div Pow10(d - i)) % 10]]

\* fmtNum without its Number.isNaN test
fmtNumNoNaNCheck(x, digits) ==
    IF x.k \in {"null", "undefined"} THEN Placeholder
    ELSE toFixed(ToNumber(x), digits)

fmtNum(x, digits) ==
    IF x.k \in {"null", "undefined", "nan"} THEN Placeholder
    ELSE toFixed(ToNumber(x), digits)

\* fmtLocalTime: the placeholder for a falsy argument, else the instant in
\* local time, as date and time or (timeOnly) as hour:minute
fmtLocalTime(isoZ, timeOnly) ==
    IF isoZ.k \in {"null", "undefined"} THEN Placeholder
    ELSE [k |-> "time", t |-> isoZ.t, timeOnly |-> timeOnly]

-----------------------------------------------------------------------------
(* Payloads and responses *)

NoValue == [k |-> "none"]

Str(t) == [k |-> "str", t |-> t]    \* an ISO instant, t hours after an epoch

Reading(ts_utc, temp_f, humidity_pct, pressure_hpa) ==
    [k |-> "obj", ts_utc |-> ts_utc, temp_f |-> temp_f,
     humidity_pct |-> humidity_pct, pressure_hpa |-> pressure_hpa]

\* a member an object lacks reads as Undefined
Summary(current, high, low, change) ==
    [k |-> "obj", current |-> current, temp_24h_high |-> high,
     temp_24h_low |-> low, pressure_change_hpa |-> change]

Array(items) == [k |-> "arr", items |-> items]

IsObj(o) == o.k = "obj"

NetFailure == [k |-> "neterr"]
Response(ok, status, body) ==
    [k |-> "resp", ok |-> ok, status |-> status, body |-> body]
Text(s) == [k |-> "text", s |-> s]

NoErr == [k |-> "noerr"]
NetworkError == [k |-> "net"]
HttpError(status, body) == [k |-> "http", status |-> status, body |-> body]
SyntaxError == [k |-> "syntax"]
TypeError(at) == [k |-> "type", at |-> at]
ChartError(h) == [k |-> "chart", at |-> h]

\* getJSON without its test of r.ok
getJSONNoOkCheck(r) ==
    CASE r.k = "neterr" -> [ok |-> FALSE, err |-> NetworkError]
      [] r.body.k = "text" -> [ok |-> FALSE, err |-> SyntaxError]
      [] OTHER -> [ok |-> TRUE, value |-> r.body]

\* getJSON: the fetch rejects, or the status is not ok, or r.json() rejects
\* on a body that is not JSON, or the parsed body is the result
getJSON(r) ==
    CASE r.k = "neterr" -> [ok |-> FALSE, err |-> NetworkError]
      [] ~r.ok -> [ok |-> FALSE, err |-> HttpError(r.status, r.body)]
      [] r.body.k = "text" -> [ok |-> FALSE, err |-> SyntaxError]
      [] OTHER -> [ok |-> TRUE, value |-> r.body]

-----------------------------------------------------------------------------
(* The page *)

KpiFields ==
    {"curTemp", "curHum", "curPres", "tHigh", "tHighTs", "tLow", "tLowTs",
     "presDelta"}
Fields == KpiFields \cup {"lastUpdated"}

Handles7 == <<"tempChart", "humChart", "presChart">>
Handles24(v) == IF v = "five" THEN <<"temp24Chart", "pres24Chart">> ELSE <<>>
Range(q) == {q[i] : i \in DOMAIN q}
Handles(v) == Range(Handles24(v)) \cup Range(Handles7)
AllHandles == Handles("five")

Cycles == 1..MaxCycles

InitDom == [f \in Fields |-> [text |-> <<>>, cyc |-> 0]]
InitChart ==
    [h \in AllHandles |->
        [handle |-> FALSE, built |-> 0, data |-> <<>>, cyc |-> 0, updates |-> 0]]

-----------------------------------------------------------------------------
(* refresh(): the KPI texts *)

directionNoFlat(delta) == IF Gt0(delta) THEN "up" ELSE "down"

\* delta > 0 ? "up" : delta < 0 ? "down" : "flat"
direction(delta) ==
    IF Gt0(delta) THEN "up" ELSE IF Lt0(delta) THEN "down" ELSE "flat"

HighLowText(r) ==
    IF r.temp_f = Null THEN <<Placeholder>>
    ELSE <<fmtNum(r.temp_f, 1), Lit("degF")>>

presDeltaText(v, delta) ==
    IF v = "five"
    THEN <<Lit(direction(delta)), fmtNum(MathAbs(delta), 1), Lit("hPa /"),
           fmtNum(MathAbs(PRESSURE_HPA_TO_INHG(delta)), 1), Lit("inHg")>>
    ELSE <<Lit(direction(delta)), fmtNum(MathAbs(delta), 1), Lit("hPa")>>

\* The assignments to textContent in program order.  Reading a member of a
\* value that is no object throws a TypeError, at the first statement that
\* reads it.
KpiStmts(v, s) ==
    LET Stmt(f, on, text) == [f |-> f, on |-> on, text |-> text]
        cur == IF IsObj(s) THEN s.current ELSE Undefined
        hi == IF IsObj(s) THEN s.temp_24h_high ELSE Undefined
        lo == IF IsObj(s) THEN s.temp_24h_low ELSE Undefined
    IN  << Stmt("curTemp", cur,
               IF IsObj(cur) THEN <<fmtNum(cur.temp_f, 1), Lit("degF")>> ELSE <<>>),
           Stmt("curHum", cur,
               IF IsObj(cur) THEN <<fmtNum(cur.humidity_pct, 1), Lit("%")>> ELSE <<>>),
           Stmt("curPres", cur,
               IF IsObj(cur)
               THEN <<fmtNum(cur.pressure_hpa, 1), Lit("hPa /"),
                      fmtNum(PRESSURE_HPA_TO_INHG(cur.pressure_hpa), 1), Lit("inHg")>>
               ELSE <<>>),
           Stmt("tHigh", hi, IF IsObj(hi) THEN HighLowText(hi) ELSE <<>>),
           Stmt("tHighTs", hi,
               IF IsObj(hi) THEN <<Lit("@"), fmtLocalTime(hi.ts_utc, TRUE)>> ELSE <<>>),
           Stmt("tLow", lo, IF IsObj(lo) THEN HighLowText(lo) ELSE <<>>),
           Stmt("tLowTs", lo,
               IF IsObj(lo) THEN <<Lit("@"), fmtLocalTime(lo.ts_utc, TRUE)>> ELSE <<>>),
           Stmt("presDelta", s,
               IF IsObj(s) THEN presDeltaText(v, s.pressure_change_hpa) ELSE <<>>),
           Stmt("lastUpdated", cur,
               IF IsObj(cur)
               THEN <<Lit("Last updated:"), fmtLocalTime(cur.ts_utc, FALSE)>>
               ELSE <<>>) >>

\* Run the statements from the i-th on: each writes its element, until one throws
RECURSIVE WriteKpis(_, _, _, _)
WriteKpis(d, stmts, i, c) ==
    IF i > Len(stmts) THEN [dom |-> d, err |-> NoErr]
    ELSE IF ~IsObj(stmts[i].on) THEN [dom |-> d, err |-> TypeError(stmts[i].f)]
    ELSE WriteKpis([d EXCEPT ![stmts[i].f] = [text |-> stmts[i].text, cyc |-> c]],
                   stmts, i + 1, c)

-----------------------------------------------------------------------------
(* refresh(): the charts *)

Points(items, metric) ==
    [i \in DOMAIN items |-> [x |-> items[i].ts_utc, y |-> items[i][metric]]]

RECURSIVE Filter24(_, _)
\* ts.filter((p) => new Date(p.ts_utc).getTime() >= cutoff)
Filter24(items, cutoff) ==
    IF items = <<>> THEN <<>>
    ELSE LET p == Head(items)
             rest == Filter24(Tail(items), cutoff)
         IN  IF p.ts_utc.k = "str" /\ p.ts_utc.t >= cutoff
             THEN <<p>> \o rest ELSE rest

Metric(h) ==
    CASE h \in {"tempChart", "temp24Chart"} -> "temp_f"
      [] h = "humChart" -> "humidity_pct"
      [] h \in {"presChart", "pres24Chart"} -> "pressure_hpa"

\* a guard that always takes the create branch
FalsyAlways(handle) == TRUE

\* !tempChart, !temp24Chart
Falsy(handle) == ~handle

RECURSIVE BuildCharts(_, _, _, _, _)
\* handle = buildLineChart(...), one handle after the other; a constructor
\* that throws leaves its handle and the later ones unassigned
BuildCharts(ch, hs, pts, c, broken) ==
    IF hs = <<>> THEN [chart |-> ch, err |-> NoErr]
    ELSE LET h == Head(hs) IN
         IF h \in broken THEN [chart |-> ch, err |-> ChartError(h)]
         ELSE BuildCharts(
                [ch EXCEPT ![h] = [handle |-> TRUE, built |-> @.built + 1,
                                   data |-> pts[h], cyc |-> c, updates |-> 0]],
                Tail(hs), pts, c, broken)

RECURSIVE UpdateCharts(_, _, _, _)
\* chart.data.datasets[0].data = dataPoints; chart.update()
UpdateCharts(ch, hs, pts, c) ==
    IF hs = <<>> THEN [chart |-> ch, err |-> NoErr]
    ELSE LET h == Head(hs) IN
         IF ~ch[h].handle THEN [chart |-> ch, err |-> TypeError(h)]
         ELSE UpdateCharts(
                [ch EXCEPT ![h] = [@ EXCEPT !.data = pts[h], !.cyc = c,
                                            !.updates = @ + 1]],
                Tail(hs), pts, c)

\* if (!first) { build all } else { update all }
ChartBlock(ch, hs, pts, c, broken) ==
    IF hs = <<>> THEN [chart |-> ch, err |-> NoErr]
    ELSE IF Falsy(ch[hs[1]].handle) THEN BuildCharts(ch, hs, pts, c, broken)
    ELSE UpdateCharts(ch, hs, pts, c)

ChartStage(v, ch, ts, now, c, broken) ==
    IF ts.k # "arr" THEN [chart |-> ch, err |-> TypeError("ts.map")]
    ELSE LET ts24 == Filter24(ts.items, now - 24)
             pts == [h \in AllHandles |->
                        IF h \in {"temp24Chart", "pres24Chart"}
                        THEN Points(ts24, Metric(h))
                        ELSE Points(ts.items, Metric(h))]
             r24 == ChartBlock(ch, Handles24(v), pts, c, broken)
         IN  IF r24.err # NoErr THEN r24
             ELSE ChartBlock(r24.chart, Handles7, pts, c, broken)

\* refresh() from the statement after the await to its end
Render(v, d, ch, s, ts, now, c, broken) ==
    LET k == WriteKpis(d, KpiStmts(v, s), 1, c) IN
    IF k.err # NoErr THEN [dom |-> k.dom, chart |-> ch, err |-> k.err]
    ELSE LET g == ChartStage(v, ch, ts, now, c, broken)
         IN  [dom |-> k.dom, chart |-> g.chart, err |-> g.err]

-----------------------------------------------------------------------------
(* What the server and the environment may hand to a run *)

Q(n) == Fin(n, 4)

SumA ==
    Summary(Reading(Str(30), Q(289), Q(182), Q(4061)),
            Reading(Str(20), Q(300), Q(180), Q(4060)),
            Reading(Str(10), Q(250), Q(190), Q(4050)), Q(-10))
\* a payload without temp_24h_high
SumM ==
    Summary(Reading(Str(32), Q(291), Q(183), Q(4062)), Undefined,
            Reading(Str(12), Q(252), Q(190), Q(4050)), Q(3))

Summaries == {SumA, SumM}

TsEmpty == Array(<<>>)
TsTwo ==
    Array(<<Reading(Str(0), Q(280), Q(200), Q(4040)),
            Reading(Str(30), Q(289), Null, Q(4061))>>)

TimeSeries == {TsEmpty, TsTwo}

SummaryResponses ==
    {NetFailure, Response(FALSE, 500, Text("oops")), Response(TRUE, 200, Text("<html>"))}
        \cup {Response(TRUE, 200, s) : s \in Summaries}

TimeseriesResponses ==
    {NetFailure, Response(FALSE, 404, Text("gone"))}
        \cup {Response(TRUE, 200, t) : t \in TimeSeries}

\* Date.now() at the render, in hours
Nows == {36}

\* the chart constructors that throw in one render: none or one
Broken == {{}} \cup {{h} : h \in AllHandles}

-----------------------------------------------------------------------------
(* The driver and the cycles *)

\* One call of refresh(): the two responses it has been handed (NoValue: not
\* yet) and the error it was rejected with (NoErr: none)
Call(st, sum, ts, err) == [st |-> st, sum |-> sum, ts |-> ts, err |-> err]
NotCalled == Call("none", NoValue, NoValue, NoErr)
Awaiting == Call("awaiting", NoValue, NoValue, NoErr)

\* setInterval called whether or not the page-load call succeeded
ArmsTimerAlways(ok) == TRUE

\* setInterval is the statement after `await refresh()` inside the try
ArmsTimer(ok) == ok

\* refresh() of cycle c has returned or thrown.  The page-load call sits in
\* try/catch: the catch logs and writes the message to lastUpdated.  A timer
\* call has only .catch(console.error).
Settle(c, got, d, ch, err) ==
    /\ cycle' = [cycle EXCEPT ![c] =
                    Call(IF err = NoErr THEN "done" ELSE "failed",
                         got.sum, got.ts, err)]
    /\ chart' = ch
    /\ IF c = 1
       THEN /\ timer' = ArmsTimer(err = NoErr)
            /\ dom' = IF err = NoErr THEN d
                      ELSE [d EXCEPT !["lastUpdated"] =
                              [text |-> <<Lit("Error loading data:"), err>>,
                               cyc |-> c]]
       ELSE /\ timer' = timer
            /\ dom' = d

\* One getJSON promise of cycle c settles on response r.  Promise.all rejects
\* with the first rejection and ignores what settles later; when the second
\* value arrives, refresh() runs on to its end in the same task.
Arrive(c, which, r) ==
    /\ cycle[c].st \in {"awaiting", "failed"}
    /\ cycle[c][which] = NoValue
    /\ LET got == [cycle[c] EXCEPT ![which] = r]
           g == getJSON(r)
       IN  IF cycle[c].st = "failed" \/ (g.ok /\ NoValue \in {got.sum, got.ts})
           THEN /\ cycle' = [cycle EXCEPT ![c] = got]
                /\ UNCHANGED <<timer, dom, chart>>
           ELSE IF ~g.ok THEN Settle(c, got, dom, chart, g.err)
           ELSE \E now \in Nows, broken \in Broken :
                  \* (out is bound once so that Render is evaluated once)
                  \E out \in {Render(variant, dom, chart, getJSON(got.sum).value,
                                    getJSON(got.ts).value, now, c, broken)} :
                      Settle(c, got, out.dom, out.chart, out.err)
    /\ UNCHANGED <<variant, pin, pout>>

SummaryArrives ==
    \E c \in Cycles, r \in SummaryResponses : Arrive(c, "sum", r)

TimeseriesArrives ==
    \E c \in Cycles, r \in TimeseriesResponses : Arrive(c, "ts", r)

\* a tick that is skipped while a call is in flight
TickExclusive ==
    /\ timer
    /\ \A c \in Cycles : cycle[c].st # "awaiting"
    /\ \E c \in Cycles :
        /\ cycle[c].st = "none"
        /\ \A b \in 1..(c - 1) : cycle[b].st # "none"
        /\ cycle' = [cycle EXCEPT ![c] = Awaiting]
    /\ UNCHANGED <<variant, timer, dom, chart, pin, pout>>

\* The interval timer fires: refresh() is called and runs to its await
Tick ==
    /\ timer
    /\ \E c \in Cycles :
        /\ cycle[c].st = "none"
        /\ \A b \in 1..(c - 1) : cycle[b].st # "none"
        /\ cycle' = [cycle EXCEPT ![c] = Awaiting]
    /\ UNCHANGED <<variant, timer, dom, chart, pin, pout>>

\* The script has run to the await of the page-load call
Init ==
    /\ variant \in {"three", "five"}
    /\ timer = FALSE
    /\ cycle = [c \in Cycles |-> IF c = 1 THEN Awaiting ELSE NotCalled]
    /\ dom = InitDom
    /\ chart = InitChart
    /\ pin = NoValue
    /\ pout = NoValue

Next == Tick \/ SummaryArrives \/ TimeseriesArrives

Spec == Init /\ [][Next]_vars

-----------------------------------------------------------------------------
(* fmtNum on its own: the inputs are drawn in the initial state *)

JsNumbers ==
    {NaN, Inf(FALSE), Inf(TRUE), Big(FALSE), Big(TRUE)}
        \cup {Fin(q, 4) : q \in -MaxQ..MaxQ}

FmtInputs == [x : {Null, Undefined} \cup JsNumbers, digits : 0..MaxDigits]

Idle ==
    /\ timer = FALSE
    /\ cycle = [c \in Cycles |-> NotCalled]
    /\ dom = InitDom
    /\ chart = InitChart

InitFmt ==
    /\ Idle
    /\ variant = "three"
    /\ pin \in FmtInputs
    /\ pout = NoValue

CallFmtNum ==
    /\ pout = NoValue
    /\ pout' = fmtNum(pin.x, pin.digits)
    /\ UNCHANGED <<variant, timer, cycle, dom, chart, pin>>

SpecFmt == InitFmt /\ [][CallFmtNum]_vars

-----------------------------------------------------------------------------
(* The KPI statements of refresh() on their own, over every combination of *)
(* numeric members                                                         *)

KpiNums == {Null, Undefined, Q(-MaxQ), Q(0), Q(MaxQ)}
Deltas == KpiNums \cup {Q(-10), Q(-1), Q(1), Inf(FALSE), Inf(TRUE)}

KpiInputs ==
    {Summary(Reading(Str(30), t, h, p), Reading(Str(20), hi, Q(180), Q(4060)),
             Reading(Str(10), lo, Q(190), Q(4050)), delta) :
        t \in KpiNums, h \in KpiNums, p \in KpiNums, hi \in KpiNums,
        lo \in KpiNums, delta \in Deltas}

InitKpi ==
    /\ Idle
    /\ variant \in {"three", "five"}
    /\ pin \in KpiInputs
    /\ pout = NoValue

CallKpis ==
    /\ pout = NoValue
    /\ pout' = WriteKpis(InitDom, KpiStmts(variant, pin), 1, 1)
    /\ UNCHANGED <<variant, timer, cycle, dom, chart, pin>>

SpecKpi == InitKpi /\ [][CallKpis]_vars

-----------------------------------------------------------------------------
(* Properties *)

Failed(r) == r.k = "neterr" \/ (r.k = "resp" /\ (~r.ok \/ r.body.k = "text"))
NonOk(r) == r.k = "resp" /\ ~r.ok
Finishes(c) == cycle[c].st = "awaiting" /\ cycle'[c].st \in {"done", "failed"}
Renders(c) == cycle[c].st = "awaiting" /\ cycle'[c].st = "done"
ErrorBanner(c) ==
    [text |-> <<Lit("Error loading data:"), cycle[c].err>>, cyc |-> c]

\* C1: whenever a cycle fails, page-load or timer-triggered, the step that
\* fails it writes the error message into lastUpdated.
C1_EveryFailureShown ==
    [][\A c \in Cycles :
         (Finishes(c) /\ cycle'[c].st = "failed")
            => dom'["lastUpdated"] = ErrorBanner(c)']_vars

\* C2: a failed cycle, the page-load one included, leaves the timer running
\* (so that a further cycle starts at the next tick).
C2_TimerRunsAfterFailure ==
    \A c \in Cycles : cycle[c].st = "failed" => timer

Other(w) == IF w = "sum" THEN "ts" ELSE "sum"
WroteDisplay(c) ==
    (\E f \in KpiFields : dom[f].cyc = c) \/ (\E h \in AllHandles : chart[h].cyc = c)
BothSucceeded(c) ==
    /\ cycle[c].sum.k = "resp" /\ cycle[c].sum.ok
    /\ cycle[c].ts.k = "resp" /\ cycle[c].ts.ok
\* what a failed fetch rejects with
Rejection(r) ==
    CASE r.k = "neterr" -> NetworkError
      [] NonOk(r) -> HttpError(r.status, r.body)
      [] OTHER -> SyntaxError

\* C3 as claimed: a cycle that was handed a non-success response is rejected
\* with an HttpError carrying the status and body (of that response, or of
\* its other response if that was a non-success one too) and has written no
\* KPI field and no chart; whatever a cycle wrote, it wrote after both of
\* its fetches had succeeded.
C3_NonOkAbortsWithHttpError ==
    \A c \in Cycles :
        /\ \A w \in {"sum", "ts"} :
             LET r == cycle[c][w]
                 o == cycle[c][Other(w)]
             IN  NonOk(r) =>
                    /\ cycle[c].st = "failed"
                    /\ \/ cycle[c].err = Rejection(r)
                       \/ NonOk(o) /\ cycle[c].err = Rejection(o)
                    /\ ~WroteDisplay(c)
        /\ WroteDisplay(c) => BothSucceeded(c)

\* C3 amended: a cycle that was handed a non-success response is rejected --
\* with the HttpError carrying that response's status and body, or, if its
\* other fetch failed as well (network failure, non-success status, body
\* that is no JSON), with one of the two rejections -- and has written no KPI
\* field and no chart; whatever a cycle wrote, it wrote after both of its
\* fetches had succeeded.
C3_NonOkAbortsWithFirstRejection ==
    \A c \in Cycles :
        /\ \A w \in {"sum", "ts"} :
             LET r == cycle[c][w]
                 o == cycle[c][Other(w)]
             IN  NonOk(r) =>
                    /\ cycle[c].st = "failed"
                    /\ \/ cycle[c].err = Rejection(r)
                       \/ Failed(o) /\ cycle[c].err = Rejection(o)
                    /\ ~WroteDisplay(c)
        /\ WroteDisplay(c) => BothSucceeded(c)

\* a timer cycle got its summary, then a 404 for the timeseries: it failed
\* with that HttpError and the page still shows cycle 1
C3_Witness ==
    /\ cycle[2].st = "failed"
    /\ cycle[2].sum = Response(TRUE, 200, SumA)
    /\ cycle[2].err = HttpError(404, Text("gone"))
    /\ \A f \in KpiFields : dom[f].cyc = 1
    /\ \A h \in Handles(variant) : chart[h].cyc = 1

\* C4: no chart is ever constructed twice; a cycle that renders to its end
\* constructs the charts that do not exist yet and, for each that exists,
\* replaces its points and redraws it.
C4_ChartsBuiltOnce ==
    [][/\ \A h \in AllHandles : chart'[h].built <= 1
       /\ \A c \in Cycles : Renders(c) =>
            \A h \in Handles(variant) :
               /\ chart'[h].handle /\ chart'[h].cyc = c
               /\ h \in Range(Handles7) =>
                    chart'[h].data =
                        Points(cycle'[c].ts.body.items, Metric(h))
               /\ IF chart[h].handle
                  THEN /\ chart'[h].built = chart[h].built
                       /\ chart'[h].updates = chart[h].updates + 1
                  ELSE chart'[h].built = 1 /\ chart'[h].updates = 0]_vars

\* two overlapping timer cycles, one failed and one rendered: the charts were
\* built once, by cycle 1, and redrawn once
C4_Witness ==
    /\ cycle[2].st = "failed"
    /\ cycle[3].st = "done"
    /\ \A h \in Handles(variant) :
          chart[h].built = 1 /\ chart[h].updates = 1 /\ chart[h].cyc = 3

Missing(x) == x \in {Null, Undefined}
ShowsNumber(text) ==
    \E i \in DOMAIN text :
        \/ text[i].k \in {"fixed", "exp"}
        \/ text[i] \in {Lit("NaN"), Lit("Infinity"), Lit("-Infinity")}
ShowsPlaceholderOnly(text) ==
    (\E i \in DOMAIN text : text[i] = Placeholder) /\ ~ShowsNumber(text)

\* C5: after the KPI statements have run, a numeric member that was null or
\* missing shows as the placeholder in its KPI text, with no number and no
\* "NaN" beside it, and nothing was thrown.
C5_MissingShowsPlaceholder ==
    pout # NoValue =>
        /\ pout.err = NoErr
        /\ Missing(pin.current.temp_f)
              => ShowsPlaceholderOnly(pout.dom["curTemp"].text)
        /\ Missing(pin.current.humidity_pct)
              => ShowsPlaceholderOnly(pout.dom["curHum"].text)
        /\ Missing(pin.current.pressure_hpa)
              => ShowsPlaceholderOnly(pout.dom["curPres"].text)
        /\ Missing(pin.temp_24h_high.temp_f)
              => ShowsPlaceholderOnly(pout.dom["tHigh"].text)
        /\ Missing(pin.temp_24h_low.temp_f)
              => ShowsPlaceholderOnly(pout.dom["tLow"].text)
        /\ Missing(pin.pressure_change_hpa)
              => ShowsPlaceholderOnly(pout.dom["presDelta"].text)

ShownBy(c) ==
    /\ \A f \in Fields : dom[f].cyc \in {0, c}
    /\ \A h \in Handles(variant) : chart[h].cyc \in {0, c}

\* C6: between tasks, everything on the page that a cycle has written was
\* written by one and the same cycle.
C6_DisplayFromOneCycle ==
    \E c \in Cycles : ShownBy(c)

\* C7: a tick starts a cycle whatever the earlier cycles are doing, and a
\* cycle that renders to its end leaves every KPI field and every chart
\* holding its own data, whichever cycles rendered before it.
C7_LastCompletionWins ==
    /\ [](timer /\ (\E c \in Cycles : cycle[c].st = "none") => ENABLED Tick)
    /\ [][\A c \in Cycles : Renders(c) =>
            /\ \A f \in Fields : dom'[f].cyc = c
            /\ \A h \in Handles(variant) : chart'[h].cyc = c
            /\ dom'["curTemp"].text =
                  <<fmtNum(cycle'[c].sum.body.current.temp_f, 1), Lit("degF")>>
            /\ chart'["tempChart"].data =
                  Points(cycle'[c].ts.body.items, "temp_f")]_vars

\* cycle 3 has rendered and cycle 2, started before it, rendered after it:
\* the page shows cycle 2
C7_Witness ==
    /\ cycle[2].st = "done"
    /\ cycle[3].st = "done"
    /\ \A f \in Fields : dom[f].cyc = 2
    /\ \A h \in Handles(variant) : chart[h].cyc = 2

Positive(x) == (x.k = "fin" /\ x.num > 0) \/ (x.k = "inf" /\ ~x.neg)
Negative(x) == (x.k = "fin" /\ x.num < 0) \/ (x.k = "inf" /\ x.neg)
Zero(x) == x.k = "fin" /\ x.num = 0
Magnitude(x) == IF x.k = "fin" THEN Fin(AbsInt(x.num), x.den) ELSE Inf(FALSE)

\* C8: for a numeric pressure_change_hpa the presDelta text starts with "up"
\* when it is positive, "down" when negative, "flat" when zero, followed by
\* its magnitude, formatted, without a sign.
C8_DirectionAndMagnitude ==
    (pout # NoValue /\ pin.pressure_change_hpa.k \in {"fin", "inf"}) =>
        LET delta == pin.pressure_change_hpa
            text == pout.dom["presDelta"].text
        IN  /\ Positive(delta) => text[1] = Lit("up")
            /\ Negative(delta) => text[1] = Lit("down")
            /\ Zero(delta) => text[1] = Lit("flat")
            /\ text[2] = toFixed(Magnitude(delta), 1)
            /\ text[2].k = "fixed" => ~text[2].neg
            /\ text[2] # Lit("-Infinity")

\* pressure_change_hpa = -2.5 shows as "down 2.5 hPa"
C8_Witness ==
    /\ pout # NoValue
    /\ variant = "three"
    /\ pin.pressure_change_hpa = Q(-10)
    /\ pout.dom["presDelta"].text =
          <<Lit("down"),
            [k |-> "fixed", neg |-> FALSE, ip |-> 2, frac |-> <<5>>],
            Lit("hPa")>>

\* C9 as claimed: fmtNum(x, d) is the placeholder iff x is null, undefined
\* or NaN, and for every other numeric x a fixed-point string with exactly d
\* digits after the point.
C9_FixedForEveryNumber ==
    pout # NoValue =>
        /\ pout = Placeholder <=> pin.x \in {Null, Undefined, NaN}
        /\ pin.x \notin {Null, Undefined, NaN}
              => pout.k = "fixed" /\ Len(pout.frac) = pin.digits

\* C9 amended: fmtNum(x, d) is the placeholder iff x is null, undefined or
\* NaN; for a finite x of magnitude below 1e21 it is a fixed-point string
\* with exactly d digits after the point; for an infinite x or a magnitude of
\* 1e21 and more it is neither.
C9_FixedForFiniteNumber ==
    pout # NoValue =>
        /\ pout = Placeholder <=> pin.x \in {Null, Undefined, NaN}
        /\ pin.x.k = "fin" => pout.k = "fixed" /\ Len(pout.frac) = pin.digits
        /\ pin.x.k \in {"inf", "big"} =>
              pout.k # "fixed" /\ pout # Placeholder

\* fmtNum(-0.25, 2) = "-0.25"
C9_Witness ==
    /\ pin = [x |-> Fin(-1, 4), digits |-> 2]
    /\ pout = [k |-> "fixed", neg |-> TRUE, ip |-> 0, frac |-> <<2, 5>>]

\* C10: the timer is armed only once the page-load cycle has rendered to its
\* end, no timer cycle is started before that, every chart handle exists
\* from then on, and no cycle has thrown on an undefined chart handle.
C10_TimerOnlyAfterFirstRender ==
    /\ timer => cycle[1].st = "done"
    /\ \A c \in Cycles \ {1} :
          cycle[c].st # "none" =>
             /\ cycle[1].st = "done"
             /\ \A h \in Handles(variant) : chart[h].handle
    /\ \A c \in Cycles, h \in AllHandles : cycle[c].err # TypeError(h)

\* a timer cycle has rendered to its end, through the update branch
C10_Witness ==
    /\ cycle[2].st = "done"
    /\ \A h \in Handles(variant) : chart[h].updates = 1 /\ chart[h].cyc = 2

=============================================================================
